---- MODULE Spec2Model ----
(***************************************************************************)
(* cyhy-runner: the job lifecycle engine, modelled from the package source *)
(* src/src/cyhy_runner/cyhy_runner.py.                                     *)
(*                                                                         *)
(* The daemon is one control thread; its position is pc.  Every daemon     *)
(* action is one filesystem or process system call (or the in-memory code  *)
(* between two of them), so that producers, child processes and the        *)
(* termination signal interleave with it the way the operating system      *)
(* lets them.                                                              *)
(***************************************************************************)
EXTENDS Integers, Sequences, FiniteSets, TLC

\* Number of job identifiers a producer may deliver.
NumJobs == 2

Ids == 1..NumJobs

\* Exit statuses a job script may end with.
ExitCodes == {0, 1}

\* Content of a .done file a producer may leave in a job it delivers.
LeftoverCodes == {1}

\* do_work: write_status_file(dest_dir, -111)
SENTINEL == -111

VARIABLES
    runDir,         \* running/<id>: the job directory and its files
    doneDir,        \* done/<id>
    child,          \* the operating system's child process of job <id>
    running_dirs,   \* module global running_dirs (the Active Job Set)
    processes,      \* module global processes (the live process collection)
    IS_RUNNING,     \* module global IS_RUNNING
    background,     \* args["--background"]
    pc,             \* the control thread's position
    cands,          \* check_for_new_work: directories still to iterate
    cur,            \* the job the thread is working on (0: none)
    rc,             \* return_code to be written by write_status_file
    caller,         \* who called move_job_to_done / write_status_file
    idx,            \* check_for_done_work: the list iterator's index
    everReady,      \* history: jobs whose .ready file has ever existed
    notStarted,     \* history: jobs the current discovery pass logged as
                    \*          "Not starting work, no .ready file found"
    exitedAtStart,  \* history: handles whose child had exited when the
                    \*          current reaper pass started
    critical,       \* history: logger.critical was called since the last
                    \*          cycle that ran to its end
    listedReady,    \* history: the candidates of the current cycle's listing
                    \*          that held a .ready file when it was taken
    rejected,       \* history: jobs some discovery pass has logged as
                    \*          "Not starting work, no .ready file found"
                    \*          and no cycle before the current one admitted
    quiet           \* environment: 0 while producers and children act;
                    \*          1 once they have stopped; 2 once a whole
                    \*          cycle has run since they stopped

vars == <<runDir, doneDir, child, running_dirs, processes, IS_RUNNING,
          background, pc, cands, cur, rc, caller, idx, everReady,
          notStarted, exitedAtStart, critical, listedReady, rejected,
          quiet>>

fsVars == <<runDir, doneDir>>
globalVars == <<running_dirs, processes>>
localVars == <<cands, cur, rc, caller, idx>>
histVars == <<everReady, notStarted, exitedAtStart, critical, listedReady,
              rejected, quiet>>

----------------------------------------------------------------------------
\* The filesystem

\* A directory that does not exist.
NoDir ==
    [exists |-> FALSE, ready |-> FALSE, job |-> FALSE, out |-> FALSE,
     err |-> FALSE, done |-> {}]

\* A directory a producer has just created, with or without a leftover .done.
NewDir(leftover) ==
    [exists |-> TRUE, ready |-> FALSE, job |-> FALSE, out |-> FALSE,
     err |-> FALSE, done |-> leftover]

\* Mutant: the directory is tested instead of its .ready file.
ReadyExists_DirOnly(d) == runDir[d].exists

\* os.path.exists(ready_file)
ReadyExists(d) == runDir[d].exists /\ runDir[d].ready

\* os.path.exists(job_file)
JobFileExists(d) == runDir[d].exists /\ runDir[d].job

\* set(os.listdir(RUNNING_DIR))
ListRunning == {d \in Ids : runDir[d].exists}

\* A process that was never spawned, one that runs, one that exited with c.
NoChild == [st |-> "none", code |-> 0]
Running == [st |-> "running", code |-> 0]
Exited(c) == [st |-> "exited", code |-> c]

\* proc.poll(): {} is None.  With --background the daemon context ignores
\* SIGCHLD, the kernel reaps the child itself, waitpid fails with ECHILD and
\* subprocess reports return code 0.
Poll(p) ==
    IF child[p].st = "exited"
    THEN {IF background THEN 0 ELSE child[p].code}
    ELSE {}

\* list.remove(x): the list without the first element equal to x.
RECURSIVE ListRemove(_, _)
ListRemove(s, x) ==
    IF s = <<>> THEN <<>>
    ELSE IF Head(s) = x THEN Tail(s)
    ELSE <<Head(s)>> \o ListRemove(Tail(s), x)

\* The job identifiers of the handles in the live process collection.
Handles == {processes[i] : i \in 1..Len(processes)}

\* The number of handles of job j in the live process collection.
HandleCount(j) == Cardinality({i \in 1..Len(processes) : processes[i] = j})

----------------------------------------------------------------------------
Init ==
    /\ runDir = [d \in Ids |-> NoDir]
    /\ doneDir = [d \in Ids |-> NoDir]
    /\ child = [d \in Ids |-> NoChild]
    /\ running_dirs = {}
    /\ processes = <<>>
    /\ IS_RUNNING = TRUE
    /\ background \in BOOLEAN
    /\ pc = "loop"
    /\ cands = {}
    /\ cur = 0
    /\ rc = 0
    /\ caller = "none"
    /\ idx = 0
    /\ everReady = {}
    /\ notStarted = {}
    /\ exitedAtStart = {}
    /\ critical = FALSE
    /\ listedReady = {}
    /\ rejected = {}
    /\ quiet = 0

----------------------------------------------------------------------------
\* The producer (commander), the child processes and the signal

\* The producer creates running/<j>.
ProducerMkdir(j) ==
    /\ ~runDir[j].exists
    /\ ~doneDir[j].exists
    /\ \E leftover \in {{}} \cup {{c} : c \in LeftoverCodes} :
          runDir' = [runDir EXCEPT ![j] = NewDir(leftover)]
    /\ UNCHANGED <<doneDir, child, globalVars, IS_RUNNING, background, pc,
                   localVars, histVars>>

\* The producer writes running/<j>/job.
ProducerWriteJob(j) ==
    /\ runDir[j].exists
    /\ j \notin everReady
    /\ ~runDir[j].job
    /\ runDir' = [runDir EXCEPT ![j].job = TRUE]
    /\ UNCHANGED <<doneDir, child, globalVars, IS_RUNNING, background, pc,
                   localVars, histVars>>

\* The producer creates running/<j>/.ready, its last write.
ProducerWriteReady(j) ==
    /\ runDir[j].exists
    /\ j \notin everReady
    /\ runDir' = [runDir EXCEPT ![j].ready = TRUE]
    /\ everReady' = everReady \cup {j}
    /\ UNCHANGED <<doneDir, child, globalVars, IS_RUNNING, background, pc,
                   localVars, notStarted, exitedAtStart, critical,
                   listedReady, rejected, quiet>>

\* The child process of job j exits with status c.
ChildExit(j, c) ==
    /\ child[j].st = "running"
    /\ child' = [child EXCEPT ![j] = Exited(c)]
    /\ UNCHANGED <<fsVars, globalVars, IS_RUNNING, background, pc, localVars,
                   histVars>>

\* Mutant: the handler leaves the loop at once (as raising SystemExit would).
HandleTerm_Aborts ==
    /\ IS_RUNNING
    /\ pc # "exit"
    /\ IS_RUNNING' = FALSE
    /\ pc' = "exit"
    /\ UNCHANGED <<fsVars, child, globalVars, background, localVars,
                   histVars>>

\* Mutant: the handler also kills the children that are still running.
HandleTerm_Kills ==
    /\ IS_RUNNING
    /\ pc # "exit"
    /\ IS_RUNNING' = FALSE
    /\ child' = [j \in Ids |->
                   IF child[j].st = "running" THEN Exited(1) ELSE child[j]]
    /\ UNCHANGED <<fsVars, globalVars, background, pc, localVars, histVars>>

\* handle_term: the signal handler.
HandleTerm ==
    /\ IS_RUNNING
    /\ pc # "exit"
    /\ IS_RUNNING' = FALSE
    /\ UNCHANGED <<fsVars, child, globalVars, background, pc, localVars,
                   histVars>>

\* From a cycle boundary on, the producers write nothing more and no child
\* exits: the listing of running/ and every poll() keep their results.
Quiesce ==
    /\ pc = "loop"
    /\ quiet = 0
    /\ quiet' = 1
    /\ UNCHANGED <<fsVars, child, globalVars, IS_RUNNING, background, pc,
                   localVars, everReady, notStarted, exitedAtStart, critical,
                   listedReady, rejected>>

----------------------------------------------------------------------------
\* The daemon: run() and what it calls

\* run: while IS_RUNNING
LoopTest ==
    /\ pc = "loop"
    /\ pc' = IF IS_RUNNING THEN "list" ELSE "exit"
    /\ UNCHANGED <<fsVars, child, globalVars, IS_RUNNING, background,
                   localVars, histVars>>

\* check_for_new_work: dirs = set(os.listdir(RUNNING_DIR)); the for loop
\* iterates dirs.difference(running_dirs), computed once.
ListDir ==
    /\ pc = "list"
    /\ cands' = ListRunning \ running_dirs
    /\ pc' = "new_iter"
    /\ listedReady' = {d \in ListRunning \ running_dirs : ReadyExists(d)}
    /\ UNCHANGED <<fsVars, child, globalVars, IS_RUNNING, background, cur, rc,
                   caller, idx, everReady, notStarted, exitedAtStart,
                   critical, rejected, quiet>>

\* Mutant: an admitted directory is handed to do_work without being tracked.
Evaluate_NoTrack(d) ==
    /\ pc = "new_iter"
    /\ d \in cands
    /\ cands' = cands \ {d}
    /\ IF d \notin running_dirs /\ ReadyExists(d)
       THEN /\ cur' = d
            /\ pc' = "do_work"
            /\ UNCHANGED <<running_dirs, notStarted, rejected>>
       ELSE /\ notStarted' = notStarted \cup {d}
            /\ rejected' = rejected \cup {d}
            /\ UNCHANGED <<running_dirs, cur, pc>>
    /\ UNCHANGED <<fsVars, child, processes, IS_RUNNING, background, rc,
                   caller, idx, everReady, exitedAtStart, critical,
                   listedReady, quiet>>

\* Mutant: a directory rejected for its missing .ready file is tracked all
\* the same.
Evaluate_TracksRejected(d) ==
    /\ pc = "new_iter"
    /\ d \in cands
    /\ cands' = cands \ {d}
    /\ IF d \notin running_dirs /\ ReadyExists(d)
       THEN /\ running_dirs' = running_dirs \cup {d}
            /\ cur' = d
            /\ pc' = "do_work"
            /\ UNCHANGED <<notStarted, rejected>>
       ELSE /\ notStarted' = notStarted \cup {d}
            /\ rejected' = rejected \cup {d}
            /\ running_dirs' = running_dirs \cup {d}
            /\ UNCHANGED <<cur, pc>>
    /\ UNCHANGED <<fsVars, child, processes, IS_RUNNING, background, rc,
                   caller, idx, everReady, exitedAtStart, critical,
                   listedReady, quiet>>

\* check_for_new_work: one iteration of the for loop, on directory d (a set
\* iterates in no particular order).  A leftover .done file is only logged.
Evaluate(d) ==
    /\ pc = "new_iter"
    /\ d \in cands
    /\ cands' = cands \ {d}
    /\ IF d \notin running_dirs /\ ReadyExists(d)
       THEN /\ running_dirs' = running_dirs \cup {d}
            /\ cur' = d
            /\ pc' = "do_work"
            /\ UNCHANGED <<notStarted, rejected>>
       ELSE /\ notStarted' =
                  IF d \in running_dirs THEN notStarted
                  ELSE notStarted \cup {d}
            /\ rejected' =
                  IF d \in running_dirs THEN rejected
                  ELSE rejected \cup {d}
            /\ UNCHANGED <<running_dirs, cur, pc>>
    /\ UNCHANGED <<fsVars, child, processes, IS_RUNNING, background, rc,
                   caller, idx, everReady, exitedAtStart, critical,
                   listedReady, quiet>>

\* Mutant: the reaper is entered while candidates are still to be evaluated.
NewWorkDone_Early ==
    /\ pc = "new_iter"
    /\ pc' = "reap_iter"
    /\ idx' = 1
    /\ exitedAtStart' = {j \in Handles : child[j].st = "exited"}
    /\ notStarted' = {}
    /\ UNCHANGED <<fsVars, child, globalVars, IS_RUNNING, background, cands,
                   cur, rc, caller, everReady, critical, listedReady,
                   rejected, quiet>>

\* check_for_new_work returns; run calls check_for_done_work, whose for loop
\* starts on the first element of processes.
NewWorkDone ==
    /\ pc = "new_iter"
    /\ cands = {}
    /\ pc' = "reap_iter"
    /\ idx' = 1
    /\ exitedAtStart' = {j \in Handles : child[j].st = "exited"}
    /\ notStarted' = {}
    /\ UNCHANGED <<fsVars, child, globalVars, IS_RUNNING, background, cands,
                   cur, rc, caller, everReady, critical, listedReady,
                   rejected, quiet>>

\* Mutant: the missing job file is not noticed and the launch goes ahead.
DoWorkNoJob_Launches ==
    /\ pc = "do_work"
    /\ ~JobFileExists(cur)
    /\ runDir' = [runDir EXCEPT ![cur].out = TRUE, ![cur].err = TRUE]
    /\ child' = [child EXCEPT ![cur] = Running]
    /\ processes' = Append(processes, cur)
    /\ pc' = "new_iter"
    /\ cur' = 0
    /\ UNCHANGED <<doneDir, running_dirs, IS_RUNNING, background, cands, rc,
                   caller, idx, histVars>>

\* do_work, no job file: move_job_to_done is called, then
\* write_status_file(dest_dir, -111).
DoWorkNoJob ==
    /\ pc = "do_work"
    /\ ~JobFileExists(cur)
    /\ caller' = "do_work"
    /\ rc' = SENTINEL
    /\ pc' = "mv_ready"
    /\ UNCHANGED <<fsVars, child, globalVars, IS_RUNNING, background, cands,
                   cur, idx, histVars>>

\* Mutant: the discovery pass ends after its first launch.
DoWorkLaunch_EndsPass ==
    /\ pc = "do_work"
    /\ JobFileExists(cur)
    /\ runDir' = [runDir EXCEPT ![cur].out = TRUE, ![cur].err = TRUE]
    /\ child' = [child EXCEPT ![cur] = Running]
    /\ processes' = Append(processes, cur)
    /\ pc' = "new_iter"
    /\ cur' = 0
    /\ cands' = {}
    /\ UNCHANGED <<doneDir, running_dirs, IS_RUNNING, background, rc,
                   caller, idx, histVars>>

\* do_work, job file present: job.out and job.err are opened, the job file is
\* made executable, the child is spawned and its handle appended.
DoWorkLaunch ==
    /\ pc = "do_work"
    /\ JobFileExists(cur)
    /\ runDir' = [runDir EXCEPT ![cur].out = TRUE, ![cur].err = TRUE]
    /\ child' = [child EXCEPT ![cur] = Running]
    /\ processes' = Append(processes, cur)
    /\ pc' = "new_iter"
    /\ cur' = 0
    /\ UNCHANGED <<doneDir, running_dirs, IS_RUNNING, background, cands, rc,
                   caller, idx, histVars>>

\* do_work raises (open, chmod or Popen fails) for a job of F: before job.out
\* is created, or after both files are.
DoWorkRaise(F) ==
    /\ pc = "do_work"
    /\ cur \in F
    /\ JobFileExists(cur)
    /\ \E opened \in BOOLEAN :
          runDir' = [runDir EXCEPT ![cur].out = opened, ![cur].err = opened]
    /\ pc' = "except"
    /\ UNCHANGED <<doneDir, child, globalVars, IS_RUNNING, background,
                   localVars, histVars>>

\* Mutant: the status file is written into the job directory before the
\* directory is moved.
MoveRemoveReady_WritesStatus ==
    /\ pc = "mv_ready"
    /\ runDir' = [runDir EXCEPT ![cur].ready = FALSE, ![cur].done = {rc}]
    /\ pc' = "mv_move"
    /\ UNCHANGED <<doneDir, child, globalVars, IS_RUNNING, background,
                   localVars, histVars>>

\* Mutant: the .ready file is left in place.
MoveRemoveReady_Skips ==
    /\ pc = "mv_ready"
    /\ pc' = "mv_move"
    /\ UNCHANGED <<fsVars, child, globalVars, IS_RUNNING, background,
                   localVars, histVars>>

\* move_job_to_done: if os.path.exists(ready_file): os.remove(ready_file)
MoveRemoveReady ==
    /\ pc = "mv_ready"
    /\ runDir' = [runDir EXCEPT ![cur].ready = FALSE]
    /\ pc' = "mv_move"
    /\ UNCHANGED <<doneDir, child, globalVars, IS_RUNNING, background,
                   localVars, histVars>>

\* Mutant: the move is seen when only part of the directory has arrived.
Relocated_Partial(dir) == [dir EXCEPT !.job = FALSE, !.out = FALSE, !.err = FALSE]

\* What shutil.move(job_dir, dest_dir) leaves at dest_dir: the directory
\* with every file it held (a rename).
Relocated(dir) == dir

\* move_job_to_done: shutil.move(job_dir, dest_dir); return dest_dir.
\* shutil.move raises FileNotFoundError when job_dir no longer exists.
MoveRename ==
    /\ pc = "mv_move"
    /\ IF runDir[cur].exists
       THEN /\ doneDir' = [doneDir EXCEPT ![cur] = Relocated(runDir[cur])]
            /\ runDir' = [runDir EXCEPT ![cur] = NoDir]
            /\ pc' = "status"
       ELSE /\ pc' = "except"
            /\ UNCHANGED fsVars
    /\ UNCHANGED <<child, globalVars, IS_RUNNING, background, localVars,
                   histVars>>

\* shutil.move raises for a job of F.
MoveRaise(F) ==
    /\ pc = "mv_move"
    /\ cur \in F
    /\ pc' = "except"
    /\ UNCHANGED <<fsVars, child, globalVars, IS_RUNNING, background,
                   localVars, histVars>>

\* write_status_file: the .done file of job_dir holds return_code; control
\* returns to do_work (which returns) or to check_for_done_work.
WriteStatus ==
    /\ pc = "status"
    /\ doneDir' = [doneDir EXCEPT ![cur].done = {rc}]
    /\ pc' = IF caller = "do_work" THEN "new_iter" ELSE "reap_remove"
    /\ cur' = IF caller = "do_work" THEN 0 ELSE cur
    /\ rc' = 0
    /\ caller' = "none"
    /\ UNCHANGED <<runDir, child, globalVars, IS_RUNNING, background, cands,
                   idx, histVars>>

\* write_status_file raises (open fails) for a job of F.
WriteStatusRaise(F) ==
    /\ pc = "status"
    /\ cur \in F
    /\ pc' = "except"
    /\ UNCHANGED <<fsVars, child, globalVars, IS_RUNNING, background,
                   localVars, histVars>>

\* check_for_done_work: the for loop fetches processes[idx] (the iterator
\* then stands on idx+1) and polls it; past the end the function returns.
ReapIter ==
    /\ pc = "reap_iter"
    /\ IF idx > Len(processes)
       THEN /\ pc' = "sleep"
            /\ idx' = 0
            /\ critical' = FALSE
            /\ UNCHANGED <<cur, rc, caller>>
       ELSE /\ idx' = idx + 1
            /\ IF Poll(processes[idx]) = {}
               THEN UNCHANGED <<pc, cur, rc, caller>>
               ELSE /\ cur' = processes[idx]
                    /\ rc' = CHOOSE c \in Poll(processes[idx]) : TRUE
                    /\ caller' = "reap"
                    /\ pc' = "mv_ready"
            /\ UNCHANGED critical
    /\ UNCHANGED <<fsVars, child, globalVars, IS_RUNNING, background, cands,
                   everReady, notStarted, exitedAtStart, listedReady,
                   rejected, quiet>>

\* Mutant: the identifier is removed and the handle is left in processes.
ReapRemove_KeepsHandle ==
    /\ pc = "reap_remove"
    /\ IF cur \in running_dirs
       THEN /\ running_dirs' = running_dirs \ {cur}
            /\ pc' = "reap_iter"
            /\ cur' = 0
       ELSE /\ pc' = "except"
            /\ UNCHANGED <<running_dirs, cur>>
    /\ UNCHANGED <<fsVars, child, processes, IS_RUNNING, background, cands,
                   rc, caller, idx, histVars>>

\* check_for_done_work: processes.remove(proc);
\* running_dirs.remove(os.path.basename(proc.job_dir)), a KeyError when the
\* identifier is not in the set.
ReapRemove ==
    /\ pc = "reap_remove"
    /\ processes' = ListRemove(processes, cur)
    /\ IF cur \in running_dirs
       THEN /\ running_dirs' = running_dirs \ {cur}
            /\ pc' = "reap_iter"
            /\ cur' = 0
       ELSE /\ pc' = "except"
            /\ UNCHANGED <<running_dirs, cur>>
    /\ UNCHANGED <<fsVars, child, IS_RUNNING, background, cands, rc, caller,
                   idx, histVars>>

\* Mutant: the exception is logged and ends the loop.
Except_Terminates ==
    /\ pc = "except"
    /\ critical' = TRUE
    /\ pc' = "exit"
    /\ cands' = {}
    /\ cur' = 0
    /\ rc' = 0
    /\ caller' = "none"
    /\ idx' = 0
    /\ exitedAtStart' = {}
    /\ notStarted' = {}
    /\ listedReady' = {}
    /\ rejected' = rejected \ running_dirs
    /\ UNCHANGED <<fsVars, child, globalVars, IS_RUNNING, background,
                   everReady, quiet>>

\* run: except Exception as ex: logger.critical(ex)
Except ==
    /\ pc = "except"
    /\ critical' = TRUE
    /\ pc' = "sleep"
    /\ cands' = {}
    /\ cur' = 0
    /\ rc' = 0
    /\ caller' = "none"
    /\ idx' = 0
    /\ exitedAtStart' = {}
    /\ notStarted' = {}
    /\ listedReady' = {}
    /\ rejected' = rejected \ running_dirs
    /\ UNCHANGED <<fsVars, child, globalVars, IS_RUNNING, background,
                   everReady, quiet>>

\* run: time.sleep(POLL_INTERVAL)
Sleep ==
    /\ pc = "sleep"
    /\ pc' = "loop"
    /\ exitedAtStart' = {}
    /\ listedReady' = {}
    /\ rejected' = rejected \ running_dirs
    /\ quiet' = IF quiet = 1 THEN 2 ELSE quiet
    /\ UNCHANGED <<fsVars, child, globalVars, IS_RUNNING, background,
                   localVars, everReady, notStarted, critical>>

----------------------------------------------------------------------------
\* The control thread's steps when no system call fails.
Steps ==
    \/ LoopTest
    \/ ListDir
    \/ \E d \in Ids : Evaluate(d)
    \/ NewWorkDone
    \/ DoWorkNoJob
    \/ DoWorkLaunch
    \/ MoveRemoveReady
    \/ MoveRename
    \/ WriteStatus
    \/ ReapIter
    \/ ReapRemove
    \/ Sleep

\* The steps that end in an exception, for the jobs of F, and the handler.
Fault(F) ==
    \/ DoWorkRaise(F)
    \/ MoveRaise(F)
    \/ WriteStatusRaise(F)
    \/ Except

\* Everything outside the daemon.
Environment ==
    \/ \E j \in Ids : ProducerMkdir(j)
    \/ \E j \in Ids : ProducerWriteJob(j)
    \/ \E j \in Ids : ProducerWriteReady(j)
    \/ \E j \in Ids : \E c \in ExitCodes : ChildExit(j, c)
    \/ HandleTerm

\* Any system call of any job may fail.
Next == Steps \/ Fault(Ids) \/ Environment

Spec == Init /\ [][Next]_vars

\* No system call fails.
NextNoFault == Steps \/ Environment

SpecNoFault == Init /\ [][NextNoFault]_vars

\* The control thread is never suspended for ever: whenever it can take a
\* step, it eventually takes one (which one is not prescribed).
FairSpec == Spec /\ WF_vars(Steps \/ Fault(Ids))

FairSpecNoFault == SpecNoFault /\ WF_vars(Steps)

\* No system call fails, and the environment may go quiet for good.
NextQuiet == Steps \/ (quiet = 0 /\ Environment) \/ Quiesce

SpecQuiet == Init /\ [][NextQuiet]_vars

\* The jobs whose system calls may fail when failures are confined to them.
BadJobs == {1}

\* Only system calls made for a job of BadJobs may fail, once or every time.
NextBadJob == Steps \/ Fault(BadJobs) \/ Environment

FairSpecBadJob == Init /\ [][NextBadJob]_vars /\ WF_vars(Steps \/ Fault(BadJobs))

----------------------------------------------------------------------------
\* Job discovery

\* C1: a discovery step admits a job into running_dirs only while that
\* job's .ready file exists, and a job directory whose .ready file has never
\* existed is never tracked, never launched and never changed by the daemon:
\* it holds nothing but what the producer put there and is never under done/.
C1_AdmitsOnlyReady ==
    /\ [][\A j \in Ids :
            (j \notin running_dirs /\ j \in running_dirs')
                => (runDir[j].exists /\ runDir[j].ready)]_vars
    /\ [](\A j \in Ids \ everReady :
            /\ j \notin running_dirs
            /\ j \notin Handles
            /\ child[j].st = "none"
            /\ ~doneDir[j].exists
            /\ ~runDir[j].ready /\ ~runDir[j].out /\ ~runDir[j].err
            /\ runDir[j].done \subseteq LeftoverCodes)

\* A discovery pass has evaluated and rejected a job directory that never had
\* a .ready file, while another job is tracked.
C1_Witness ==
    \E j \in notStarted :
        /\ j \notin everReady
        /\ runDir[j].exists
        /\ running_dirs # {}

----------------------------------------------------------------------------
\* Completion reaper

\* C2: when a reaper pass has run to its end, every handle whose child had
\* already exited when the pass started has been reaped: it is no longer in
\* processes and its job directory is under done/ and not under running/.
C2_ReapsEveryExited ==
    pc = "sleep" =>
        \A j \in exitedAtStart :
            /\ j \notin Handles
            /\ doneDir[j].exists
            /\ ~runDir[j].exists


\* C3: once the reaper has taken a launched job's handle out of processes
\* (the done marker is written before that), the job is under done/, its
\* identifier is out of running_dirs and its done marker holds the exit code
\* of its child.
C3_DoneMarkerIsExitCode ==
    \A j \in Ids :
        (child[j].st = "exited" /\ j \notin Handles)
            => /\ doneDir[j].exists
               /\ ~runDir[j].exists
               /\ j \notin running_dirs
               /\ doneDir[j].done = {child[j].code}

----------------------------------------------------------------------------
\* Degenerate jobs

\* The discovery pass is inside do_work(j) or what do_work called.
InDoWork(j) ==
    /\ cur = j
    /\ \/ pc = "do_work"
       \/ caller = "do_work" /\ pc \in {"mv_ready", "mv_move", "status"}

\* Job j was made ready without a job file.
NoExecutable(j) == j \in everReady /\ ~runDir[j].job /\ ~doneDir[j].job

C5_NotTrackedOnceDone ==
    pc = "sleep" =>
        \A j \in running_dirs : ~(doneDir[j].exists /\ doneDir[j].done # {})

----------------------------------------------------------------------------
\* Runner loop

\* C6: an exception raised in a pass does not end the loop.  Raising and
\* handling it leave IS_RUNNING as it is; from the handler control goes to
\* the sleep, from the sleep to the loop test, and from the loop test, while
\* IS_RUNNING holds, into discovery, whose end starts the reaper; and after
\* an exception the next discovery pass is always reached unless a
\* termination signal has arrived.
C6_ExceptionKeepsLoop ==
    /\ [][(pc # "except" /\ pc' = "except") => IS_RUNNING' = IS_RUNNING]_vars
    /\ [][(pc = "except" /\ pc' # pc)
            => (pc' = "sleep" /\ IS_RUNNING' = IS_RUNNING)]_vars
    /\ [][(pc = "sleep" /\ pc' # pc) => pc' = "loop"]_vars
    /\ [][(pc = "loop" /\ pc' # pc /\ IS_RUNNING) => pc' = "list"]_vars
    /\ [][(pc = "new_iter" /\ cands = {} /\ pc' # pc)
            => pc' = "reap_iter"]_vars
    /\ (pc = "except") ~> (pc = "list" \/ ~IS_RUNNING)

\* The cycle after a caught exception has run discovery and is in the reaper.
C6_Witness == critical /\ IS_RUNNING /\ pc = "reap_iter"


\* C7: when failures are confined to the jobs of BadJobs, every other job
\* that is ready with a job file is eventually launched and, once its child
\* has exited, eventually has its done marker under done/ (unless a
\* termination signal stops the loop first).
C7_OtherJobsProcessed ==
    \A j \in Ids \ BadJobs :
        /\ (runDir[j].exists /\ runDir[j].ready /\ runDir[j].job)
              ~> (child[j].st # "none" \/ ~IS_RUNNING)
        /\ (child[j].st = "exited")
              ~> ((doneDir[j].exists /\ doneDir[j].done # {}) \/ ~IS_RUNNING)

----------------------------------------------------------------------------
\* What a collector polling done/ can see

\* C8: in every state a collector can observe, a done marker under
\* done/<id> comes with the whole job directory: nothing of the job is left
\* under running/, and the job file, job.out and job.err of a launched job
\* are there (a job never launched has none of them to move).
C8_NoPartialMove ==
    \A j \in Ids :
        (doneDir[j].exists /\ doneDir[j].done # {})
            => /\ ~runDir[j].exists
               /\ child[j].st # "none"
                     => (doneDir[j].job /\ doneDir[j].out /\ doneDir[j].err)
               /\ child[j].st = "none"
                     => (~doneDir[j].job /\ ~doneDir[j].out /\ ~doneDir[j].err)

\* A launched job delivered with a leftover done marker has just been moved:
\* the marker is visible under done/ before write_status_file has run.
C8_Witness ==
    \E j \in Ids :
        /\ pc = "status"
        /\ cur = j
        /\ caller = "reap"
        /\ doneDir[j].done # {}
        /\ doneDir[j].out

----------------------------------------------------------------------------
\* Shutdown

\* C9: the termination signal only clears IS_RUNNING, which stays cleared;
\* the thread is not diverted (the loop is left only at the loop test, with
\* IS_RUNNING cleared), the loop test then starts no further pass, and once
\* the signal has arrived the loop eventually exits and stays exited.
C9_GracefulShutdown ==
    /\ [][~IS_RUNNING => ~IS_RUNNING']_vars
    /\ [][(IS_RUNNING /\ ~IS_RUNNING')
            => UNCHANGED <<pc, localVars, fsVars, globalVars, child>>]_vars
    /\ [][(pc # "exit" /\ pc' = "exit") => (pc = "loop" /\ ~IS_RUNNING)]_vars
    /\ [][(pc = "loop" /\ ~IS_RUNNING /\ pc' # pc) => pc' = "exit"]_vars
    /\ [][pc = "exit" => pc' = "exit"]_vars
    /\ (~IS_RUNNING) ~> (pc = "exit")

\* The signal has arrived in the middle of a reaper pass, which goes on.
C9_Witness == ~IS_RUNNING /\ pc = "reap_remove"

\* C10: the signal handler leaves every child process as it is, and once
\* the loop has exited nothing of a job whose handle is still in processes
\* changes any more through the daemon: processes and running_dirs stay, the
\* job directory stays as it is, and nothing appears under done/ for it, also
\* after its child has exited; and a job whose child is running always has
\* its handle in processes and its directory under running/, not under done/.
C10_ChildrenAbandoned ==
    /\ [][(IS_RUNNING /\ ~IS_RUNNING') => child' = child]_vars
    /\ [][(pc # "exit" /\ pc' = "exit") => child' = child]_vars
    /\ [][pc = "exit" =>
            /\ processes' = processes
            /\ running_dirs' = running_dirs
            /\ \A j \in Handles :
                  runDir'[j] = runDir[j] /\ doneDir'[j] = doneDir[j]]_vars
    /\ [](\A j \in Ids :
            child[j].st = "running"
                => (j \in Handles /\ runDir[j].exists /\ ~doneDir[j].exists))

\* The loop has exited with a child still in flight; the child has exited
\* since and its job is still under running/, unreaped, with no done marker.
C10_Witness ==
    \E j \in Handles :
        /\ pc = "exit"
        /\ child[j].st = "exited"
        /\ runDir[j].exists
        /\ runDir[j].done = {}
        /\ ~doneDir[j].exists

----------------------------------------------------------------------------
\* Discovery across cycles

\* Job j has been launched and its handle appended, or it had no job file
\* and was completed on the spot with the sentinel.
Started(j) ==
    \/ child[j].st # "none" /\ j \in Handles
    \/ NoExecutable(j) /\ doneDir[j].done = {SENTINEL}

----------------------------------------------------------------------------
\* Order of the two passes inside a cycle

\* The thread is inside check_for_done_work or what it called.
InReaper ==
    \/ pc \in {"reap_iter", "reap_remove"}
    \/ caller = "reap" /\ pc \in {"mv_ready", "mv_move", "status"}

\* The thread is inside check_for_new_work or what it called.
InDiscovery ==
    \/ pc \in {"new_iter", "do_work"}
    \/ caller = "do_work" /\ pc \in {"mv_ready", "mv_move", "status"}

\* C16: inside a cycle the reaper starts only when the discovery pass has
\* evaluated all its candidates, and once it has started the cycle only goes
\* on to its end (the sleep, or the exception handler and then the sleep);
\* discovery starts only from the listing, which follows the loop test.  So
\* every launch, which happens only in discovery, precedes every exit-status
\* check and every relocation the reaper makes in that cycle.
C16_DiscoveryBeforeReaper ==
    /\ [][(~InReaper /\ InReaper') => (pc = "new_iter" /\ cands = {})]_vars
    /\ [][(InReaper /\ ~InReaper') => pc' \in {"sleep", "except"}]_vars
    /\ [][(~InDiscovery /\ InDiscovery') => pc = "list"]_vars
    /\ [][(pc # "list" /\ pc' = "list") => pc = "loop"]_vars
    /\ [][(pc # "loop" /\ pc' = "loop") => pc = "sleep"]_vars
    /\ [][(processes' # processes /\ Len(processes') > Len(processes))
            => (InDiscovery /\ ~InReaper)]_vars
    /\ [][(\E j \in Ids :
              child[j].st # "none" /\ ~doneDir[j].exists /\ doneDir'[j].exists)
            => (InReaper /\ ~InDiscovery /\ cands = {})]_vars
    /\ [][(caller # "reap" /\ caller' = "reap")
            => (InReaper /\ ~InDiscovery /\ cands = {})]_vars

\* The reaper is relocating a finished job while a job launched by the
\* discovery pass of the same cycle is running.
C16_Witness ==
    \E j \in listedReady :
        /\ child[j].st = "running"
        /\ j \in Handles
        /\ pc = "mv_move"
        /\ caller = "reap"
        /\ cur # j

\* C17: once the producers write nothing more and no child exits, and one
\* whole cycle has run since, further cycles change nothing: running_dirs,
\* processes and the directory trees under running/ and done/ stay as that
\* cycle left them.
C17_RepeatedPassesChangeNothing ==
    [][quiet = 2 => UNCHANGED <<running_dirs, processes, runDir, doneDir>>]_vars

----------------------------------------------------------------------------
\* The Active Job Set and the live process collection

\* C12: at every cycle boundary every identifier in running_dirs has exactly
\* one handle in processes.
C12_OneHandlePerTracked ==
    pc = "sleep" => \A j \in running_dirs : HandleCount(j) = 1

----------------------------------------------------------------------------
\* The Done Record

\* The exit status of job j itself: its child's exit code or, for a job that
\* never had a child, the sentinel.
OwnStatus(j) == IF child[j].st = "exited" THEN child[j].code ELSE SENTINEL

\* C13: once a done marker is visible under done/<id> its content never
\* changes, and it is the job's own exit status.
C13_DoneRecordWrittenOnce ==
    /\ [][\A j \in Ids :
            doneDir[j].done # {} => doneDir'[j].done = doneDir[j].done]_vars
    /\ [](\A j \in Ids :
            doneDir[j].done # {} => doneDir[j].done = {OwnStatus(j)})


\* C14: the daemon writes a done marker only into a directory that is
\* already under done/ and no longer under running/: a directory under
\* running/ never gets a done marker or has its marker changed while it is
\* there (so one delivered without a marker never holds one under running/),
\* every change of a marker under done/ leaves the directory under done/
\* only, and write_status_file runs on a relocated directory, on the reaper
\* path and on the degenerate-job path alike.
C14_MarkerAfterRelocation ==
    /\ [][\A j \in Ids :
            (runDir[j].exists /\ runDir'[j].exists)
                => runDir'[j].done = runDir[j].done]_vars
    /\ [][\A j \in Ids :
            (doneDir[j].exists /\ doneDir'[j].done # doneDir[j].done)
                => (doneDir'[j].exists /\ ~runDir[j].exists
                    /\ ~runDir'[j].exists)]_vars
    /\ [](pc = "status"
            => (caller \in {"do_work", "reap"} /\ doneDir[cur].exists
                /\ ~runDir[cur].exists))

\* A job delivered without a done marker has been relocated by the reaper
\* and its marker is not written yet.
C14_Witness ==
    \E j \in Ids :
        /\ pc = "status"
        /\ cur = j
        /\ caller = "reap"
        /\ doneDir[j].exists
        /\ doneDir[j].done = {}
        /\ ~runDir[j].exists

\* C19: a job is launched at most once.  A job that has a child process
\* never gets another one (its child only goes from running to exited), a
\* handle is appended to processes only together with the spawning of the
\* first child of its job, and a directory under running/ whose child has
\* been spawned, or whose launch has raised, is tracked and so is no
\* candidate of any later discovery pass.
C19_LaunchedAtMostOnce ==
    /\ [][\A j \in Ids :
            (child[j].st # "none" /\ child'[j] # child[j])
                => (child[j].st = "running" /\ child'[j].st = "exited")]_vars
    /\ [][\A j \in Ids :
            HandleCount(j)' > HandleCount(j)
                => (child[j].st = "none" /\ child'[j].st = "running"
                    /\ HandleCount(j) = 0)]_vars
    /\ [](\A j \in Ids :
            (runDir[j].exists /\ (child[j].st # "none" \/ runDir[j].out))
                => (j \in running_dirs /\ j \notin cands))

\* A cycle after a relocation error: the child of job j has exited, its
\* .ready file is gone, its directory is still under running/, and the
\* discovery pass has ended without making it a candidate.
C19_Witness ==
    \E j \in Handles :
        /\ critical
        /\ pc = "new_iter"
        /\ cands = {}
        /\ child[j].st = "exited"
        /\ runDir[j].exists
        /\ ~runDir[j].ready

\* C20: processes never holds two handles of one job, every handle's job
\* identifier is in running_dirs, and the reaper's removal always finds the
\* identifier: it is never the step that raises.
C20_HandlesAreTracked ==
    /\ [](\A j \in Ids : HandleCount(j) <= 1)
    /\ [](Handles \subseteq running_dirs)
    /\ [](pc = "reap_remove" => (cur \in Handles /\ cur \in running_dirs))
    /\ [][pc = "reap_remove" /\ pc' # pc
            => (pc' = "reap_iter" /\ running_dirs' = running_dirs \ {cur}
                /\ cur \notin Handles')]_vars

\* The reaper has just removed the first of two handles and its identifier;
\* the other handle is still there, with its identifier tracked.
C20_Witness ==
    \E j \in Ids :
        /\ pc = "reap_iter"
        /\ idx = 2
        /\ Len(processes) = 1
        /\ processes[1] \in running_dirs
        /\ child[j].st = "exited"
        /\ doneDir[j].done # {}
        /\ j \notin Handles
        /\ j \notin running_dirs

----------------------------------------------------------------------------
\* The ready marker and the move

\* C18: no directory under done/ holds a .ready file; a directory appears
\* under done/ in one step, in which it leaves running/ with everything it
\* held, and it holds no .ready file when that step is taken, on the reaper
\* path and on the degenerate-job path alike.
C18_NoReadyUnderDone ==
    /\ [](\A j \in Ids : ~doneDir[j].ready)
    /\ [][\A j \in Ids :
            (~doneDir[j].exists /\ doneDir'[j].exists)
                => /\ pc = "mv_move" /\ cur = j
                   /\ caller \in {"do_work", "reap"}
                   /\ runDir[j].exists /\ ~runDir[j].ready
                   /\ ~runDir'[j].exists
                   /\ doneDir'[j] = runDir[j]]_vars

\* A job made ready without a job file has just been moved by do_work: its
\* directory is under done/ without the .ready file it had.
C18_Witness ==
    \E j \in everReady :
        /\ pc = "status"
        /\ cur = j
        /\ caller = "do_work"
        /\ doneDir[j].exists
        /\ ~doneDir[j].ready
        /\ ~runDir[j].exists

====
